---- MODULE Spec2Model ----
(***************************************************************************)
(* Burn-severity pipeline of burn_classifier/local_analysis.py:            *)
(* calculate_dnbr, classify_severity, calculate_area, plot_classified_map. *)
(*                                                                         *)
(* Raster samples are modelled in thousandths (0.100 is 100), so that the  *)
(* decimal cut points of the classifier are exact; binary rounding of      *)
(* float32 arithmetic is not modelled.  Areas are in square metres, and    *)
(* area_hectares values are in hundredths of a hectare (0.01 ha = 100 m2). *)
(***************************************************************************)
EXTENDS Integers, Sequences, FiniteSets, TLC

VARIABLES
    fs,        \* the file system: path -> raster file (or absent)
    handles,   \* the dataset handles currently open: [path, mode]
    pc,        \* position of the running stage ("idle" between calls)
    frame,     \* the running call: function, arguments and locals
    result,    \* outcome of the last finished call
    ncalls,    \* number of calls made so far
    hist       \* history kept for the properties (not program state)

vars == <<fs, handles, pc, frame, result, ncalls, hist>>

----------------------------------------------------------------------------
\* Bounds of the model.

\* number of calls in one behaviour
MaxCalls == 3
\* samples of the classifier sweep range over -MaxMilli..MaxMilli thousandths
MaxMilli == 700
\* number of pixels of the rasters of the area sweep
MaxPixels == 4

----------------------------------------------------------------------------
\* Sample values.  A sample is a record [k, v]:
\*   "fin"  a finite float, v thousandths        "nan"  NaN
\*   "inf"  +/- infinity, v its sign             "max"  +/- the largest finite float
\*   "u8"   an 8-bit unsigned integer v          "none" Python None (no nodata set)

Fin(n) == [k |-> "fin", v |-> n]
NaN == [k |-> "nan", v |-> 0]
Inf(s) == [k |-> "inf", v |-> s]
FMax(s) == [k |-> "max", v |-> s]
U8(n) == [k |-> "u8", v |-> n]
None == [k |-> "none", v |-> 0]

\* a sample seen as a float (numpy promotes uint8 to float in mixed arithmetic
\* and in comparisons with a Python float)
AsFloat(x) == IF x.k = "u8" THEN Fin(x.v * 1000) ELSE x

\* no substitution at all
nan_to_num_identity(x) == x

\* np.nan_to_num(x, nan=0.0): NaN becomes 0.0, +/-inf becomes the largest
\* finite value of the dtype with that sign, everything else is unchanged.
nan_to_num(x) ==
    CASE x.k = "nan" -> Fin(0)
      [] x.k = "inf" -> FMax(x.v)
      [] OTHER -> x

\* a - b on two float samples (IEEE: NaN propagates, inf - inf is NaN,
\* FLT_MAX absorbs a small operand, FLT_MAX - (-FLT_MAX) overflows to inf)
FSub(a, b) ==
    CASE a.k = "nan" \/ b.k = "nan" -> NaN
      [] a.k = "inf" /\ b.k = "inf" -> IF a.v = b.v THEN NaN ELSE a
      [] a.k = "inf" -> a
      [] b.k = "inf" -> Inf(-b.v)
      [] a.k = "max" /\ b.k = "max" -> IF a.v = b.v THEN Fin(0) ELSE Inf(a.v)
      [] a.k = "max" -> a
      [] b.k = "max" -> FMax(-b.v)
      [] OTHER -> Fin(a.v - b.v)

\* pre - post on two array elements: uint8 - uint8 wraps modulo 256, any
\* other pairing is a float subtraction
Minus(a, b) ==
    IF a.k = "u8" /\ b.k = "u8"
    THEN U8((a.v - b.v) % 256)
    ELSE FSub(AsFloat(a), AsFloat(b))

\* ndarray.astype(float32)
astype_float32(x) == AsFloat(x)

\* the comparison with < written for <=
Le_strict(x, t) ==
    LET f == AsFloat(x) IN
    CASE f.k = "fin" -> f.v < t
      [] f.k \in {"inf", "max"} -> f.v < 0
      [] OTHER -> FALSE

\* x <= t and x > t for a sample x and a threshold of t thousandths;
\* every comparison with NaN is false
Le(x, t) ==
    LET f == AsFloat(x) IN
    CASE f.k = "fin" -> f.v <= t
      [] f.k \in {"inf", "max"} -> f.v < 0
      [] OTHER -> FALSE

Gt(x, t) ==
    LET f == AsFloat(x) IN
    CASE f.k = "fin" -> f.v > t
      [] f.k \in {"inf", "max"} -> f.v > 0
      [] OTHER -> FALSE

----------------------------------------------------------------------------
\* classify_severity: the thresholds and the selection.

Cut1 == -251
Cut2 == -101
Cut3 == 100
Cut4 == 270
Cut5 == 440
Cut6 == 660

conditions(x) ==
    << Le(x, Cut1),
       Gt(x, Cut1) /\ Le(x, Cut2),
       Gt(x, Cut2) /\ Le(x, Cut3),
       Gt(x, Cut3) /\ Le(x, Cut4),
       Gt(x, Cut4) /\ Le(x, Cut5),
       Gt(x, Cut5) /\ Le(x, Cut6),
       Gt(x, Cut6) >>

classes == <<1, 2, 3, 4, 5, 6, 7>>

\* np.select(condlist, choicelist, default): the choice of the first
\* condition that is true, the default when none is
RECURSIVE select_from(_, _, _, _)
select_from(i, condlist, choicelist, default) ==
    IF i > Len(condlist) THEN default
    ELSE IF condlist[i] THEN choicelist[i]
    ELSE select_from(i + 1, condlist, choicelist, default)

select(condlist, choicelist, default) == select_from(1, condlist, choicelist, default)

\* ndarray.astype(uint8) on an integer
astype_uint8(n) == U8(n % 256)

\* the selection with the last class as the default
classify_pixel_default7(x) == astype_uint8(select(conditions(x), classes, 7))

classify_pixel(x) == astype_uint8(select(conditions(x), classes, 0))

----------------------------------------------------------------------------
\* Raster files, profiles and the frame of a running call.

Paths == {"a", "b", "c"}

\* the grid rasterio.warp.calculate_default_transform derives for a file's
\* georeferencing: width and height of the reprojected raster and the
\* coefficients a (pixel width, metres) and e (minus pixel height, metres)
NoGeo == [width |-> 0, height |-> 0, a |-> 0, e |-> 0]

NoFile ==
    [state |-> "absent", shape |-> <<0, 0>>, dtype |-> "none",
     nodata |-> None, geo |-> NoGeo, data |-> <<>>]

\* a closed, complete single-band raster file
Raster(shape, dtype, nodata, geo, data) ==
    [state |-> "complete", shape |-> shape, dtype |-> dtype,
     nodata |-> nodata, geo |-> geo, data |-> data]

\* src.profile: the metadata of an open dataset
ProfileOf(f) == [shape |-> f.shape, dtype |-> f.dtype, nodata |-> f.nodata, geo |-> f.geo]

NoProfile == ProfileOf(NoFile)

\* profile.update(dtype=..., count=1, compress='lzw')
profile_update(profile, dtype) == [profile EXCEPT !.dtype = dtype]

NoReport == [l \in {} |-> None]

NoFrame ==
    [fn |-> "none", args |-> <<>>, a1 |-> <<>>, shape1 |-> <<0, 0>>,
     a2 |-> <<>>, shape2 |-> <<0, 0>>, profile |-> NoProfile,
     out |-> <<>>, area |-> 0, err |-> "none"]

NoResult == [status |-> "none", path |-> "", report |-> NoReport]

Returned(path, report) == [status |-> "ok", path |-> path, report |-> report]

Raised(err) == [status |-> err, path |-> "", report |-> NoReport]

NoCall == [fn |-> "none", args |-> <<>>]

NoLast == [call |-> NoCall, result |-> NoResult, fs |-> [p \in Paths |-> NoFile]]

Handle(p, mode) == [path |-> p, mode |-> mode]

----------------------------------------------------------------------------
\* Calls and the steps every stage is made of.

\* a stage is entered from the idle state
Call(fn, args, entry) ==
    /\ pc = "idle"
    /\ ncalls < MaxCalls
    /\ ncalls' = ncalls + 1
    /\ pc' = entry
    /\ frame' = [NoFrame EXCEPT !.fn = fn, !.args = args]
    /\ result' = NoResult
    /\ hist' = [before |-> fs,
                wopened |-> FALSE,
                last |-> hist.last,
                prev |-> IF hist.last.call = [fn |-> fn, args |-> args]
                         THEN hist.last ELSE NoLast]
    /\ UNCHANGED <<fs, handles>>

\* a stage ends: by return or by an exception that reaches the caller
Finish(res, newfs) ==
    /\ pc' = "idle"
    /\ frame' = NoFrame
    /\ result' = res
    /\ hist' = [hist EXCEPT !.last = [call |-> [fn |-> frame.fn, args |-> frame.args],
                                      result |-> res,
                                      fs |-> newfs]]

\* rasterio.open(path): succeeds on a complete raster file; fails with
\* RasterioIOError when the file is missing or unreadable, which any open may be
OpenForRead(p, next) ==
    \/ /\ fs[p].state = "complete"
       /\ handles' = handles \cup {Handle(p, "r")}
       /\ pc' = next
       /\ UNCHANGED <<fs, frame, result, ncalls, hist>>
    \/ /\ Finish(Raised("IOError"), fs)
       /\ UNCHANGED <<fs, handles, ncalls>>

\* a close that is skipped when an exception is pending (a close() call at
\* the end of the block in place of the context manager)
Release_unless_raised(hs, h, err) == IF err = "none" THEN hs \ {h} ELSE hs

\* the context manager's __exit__ closes the dataset, with or without a
\* pending exception
Release(hs, h, err) == hs \ {h}

\* leaving a `with rasterio.open(path) as src` block: the dataset is closed,
\* then a pending exception propagates to the caller
ExitRead(p, next) ==
    /\ handles' = Release(handles, Handle(p, "r"), frame.err)
    /\ \/ /\ frame.err = "none"
          /\ pc' = next
          /\ UNCHANGED <<frame, result, hist>>
       \/ /\ frame.err # "none"
          /\ Finish(Raised(frame.err), fs)
    /\ UNCHANGED <<fs, ncalls>>

\* the file rasterio.open(path, 'w', **profile) creates: any previous content
\* of the path is gone, no band has been written yet
Created(profile) ==
    [state |-> "partial", shape |-> profile.shape, dtype |-> profile.dtype,
     nodata |-> profile.nodata, geo |-> profile.geo, data |-> <<>>]

\* rasterio.open(path, 'w', **profile): creates or truncates the file, or
\* fails (unwritable destination, invalid profile) and leaves the path alone
OpenForWrite(p, profile, next) ==
    \/ /\ fs' = [fs EXCEPT ![p] = Created(profile)]
       /\ handles' = handles \cup {Handle(p, "w")}
       /\ hist' = [hist EXCEPT !.wopened = TRUE]
       /\ pc' = next
       /\ UNCHANGED <<frame, result, ncalls>>
    \/ /\ Finish(Raised("IOError"), fs)
       /\ UNCHANGED <<fs, handles, ncalls>>

\* dst.write(array, 1): the band reaches the file, or the write fails midway
WriteBand(p, array, next) ==
    \/ /\ fs' = [fs EXCEPT ![p].data = array]
       /\ pc' = next
       /\ UNCHANGED <<handles, frame, result, ncalls, hist>>
    \/ /\ frame' = [frame EXCEPT !.err = "IOError"]
       /\ pc' = next
       /\ UNCHANGED <<fs, handles, result, ncalls, hist>>

\* leaving the `with rasterio.open(path, 'w') as dst` block and returning
\* the output path: the dataset is closed, which completes the file unless
\* the body raised or the final flush fails
ExitWrite(p) ==
    /\ handles' = Release(handles, Handle(p, "w"), frame.err)
    /\ \/ /\ frame.err = "none"
          /\ fs' = [fs EXCEPT ![p].state = "complete"]
          /\ Finish(Returned(p, NoReport), fs')
       \/ /\ frame.err = "none"
          /\ fs' = fs
          /\ Finish(Raised("IOError"), fs)
       \/ /\ frame.err # "none"
          /\ fs' = fs
          /\ Finish(Raised(frame.err), fs)
    /\ UNCHANGED ncalls

\* src.read(1) (and, in the same block, src.profile): the band and the
\* metadata reach the locals, or the read raises
ReadBand(p, next, first) ==
    \/ /\ frame' = IF first
                   THEN [frame EXCEPT !.a1 = fs[p].data, !.shape1 = fs[p].shape,
                                      !.profile = ProfileOf(fs[p])]
                   ELSE [frame EXCEPT !.a2 = fs[p].data, !.shape2 = fs[p].shape]
       /\ pc' = next
       /\ UNCHANGED <<fs, handles, result, ncalls, hist>>
    \/ /\ frame' = [frame EXCEPT !.err = "IOError"]
       /\ pc' = next
       /\ UNCHANGED <<fs, handles, result, ncalls, hist>>

----------------------------------------------------------------------------
\* calculate_dnbr(pre_fire_path, post_fire_path, output_dnbr_path)

\* the inputs are at "a" and "b"; the output goes to "c" or over the pre-fire input
DnbrArgs == {<<"a", "b", out>> : out \in {"a", "c"}}

CallDnbr == \E args \in DnbrArgs : Call("calculate_dnbr", args, "dnbr_open_pre")

DnbrOpenPre == pc = "dnbr_open_pre" /\ OpenForRead(frame.args[1], "dnbr_read_pre")

DnbrReadPre == pc = "dnbr_read_pre" /\ ReadBand(frame.args[1], "dnbr_exit_pre", TRUE)

DnbrExitPre == pc = "dnbr_exit_pre" /\ ExitRead(frame.args[1], "dnbr_open_post")

DnbrOpenPost == pc = "dnbr_open_post" /\ OpenForRead(frame.args[2], "dnbr_read_post")

DnbrReadPost == pc = "dnbr_read_post" /\ ReadBand(frame.args[2], "dnbr_exit_post", FALSE)

DnbrExitPost == pc = "dnbr_exit_post" /\ ExitRead(frame.args[2], "dnbr_compute")

\* the check with the sizes compared in place of the shapes
shape_mismatch_by_size(s1, s2) == s1[1] * s1[2] # s2[1] * s2[2]

\* pre_nbr.shape != post_nbr.shape
shape_mismatch(s1, s2) == s1 # s2

\* the difference with the substitution made after the subtraction
dnbr_pixel_late(pre, post) == astype_float32(nan_to_num(Minus(pre, post)))

\* one element of np.nan_to_num(pre_nbr, nan=0.0) - np.nan_to_num(post_nbr, nan=0.0),
\* cast to float32 for the write
dnbr_pixel(pre, post) == astype_float32(Minus(nan_to_num(pre), nan_to_num(post)))

\* the difference taken from the raster already at the output path, when
\* there is one, in place of the pre-fire raster
dnbr_array_onto_output(pre_nbr, post_nbr) ==
    LET old == fs[frame.args[3]]
    IN  [i \in 1..Len(pre_nbr) |->
            IF old.state = "complete" /\ Len(old.data) = Len(pre_nbr)
            THEN dnbr_pixel(old.data[i], post_nbr[i])
            ELSE dnbr_pixel(pre_nbr[i], post_nbr[i])]

dnbr_array(pre_nbr, post_nbr) ==
    [i \in 1..Len(pre_nbr) |-> dnbr_pixel(pre_nbr[i], post_nbr[i])]

\* the shape check, the difference and the profile update
DnbrCompute ==
    /\ pc = "dnbr_compute"
    /\ \/ /\ shape_mismatch(frame.shape1, frame.shape2)
          /\ Finish(Raised("ValueError"), fs)
       \/ /\ ~shape_mismatch(frame.shape1, frame.shape2)
          /\ frame' = [frame EXCEPT !.out = dnbr_array(frame.a1, frame.a2),
                                    !.profile = profile_update(frame.profile, "float32")]
          /\ pc' = "dnbr_open_out"
          /\ UNCHANGED <<result, hist>>
    /\ UNCHANGED <<fs, handles, ncalls>>

DnbrOpenOut == pc = "dnbr_open_out" /\ OpenForWrite(frame.args[3], frame.profile, "dnbr_write")

DnbrWrite == pc = "dnbr_write" /\ WriteBand(frame.args[3], frame.out, "dnbr_exit_out")

DnbrExitOut == pc = "dnbr_exit_out" /\ ExitWrite(frame.args[3])

----------------------------------------------------------------------------
\* classify_severity(dnbr_tif_path, output_classified_path)

\* the dNBR raster is at "c"; the output goes to "b" or over the dNBR raster
ClsArgs == {<<"c", out>> : out \in {"b", "c"}}

CallClassify == \E args \in ClsArgs : Call("classify_severity", args, "cls_open")

ClsOpen == pc = "cls_open" /\ OpenForRead(frame.args[1], "cls_read")

ClsRead == pc = "cls_read" /\ ReadBand(frame.args[1], "cls_exit", TRUE)

ClsExit == pc = "cls_exit" /\ ExitRead(frame.args[1], "cls_compute")

classified_array(dnbr) == [i \in 1..Len(dnbr) |-> classify_pixel(dnbr[i])]

\* the selection and the profile update
ClsCompute ==
    /\ pc = "cls_compute"
    /\ frame' = [frame EXCEPT !.out = classified_array(frame.a1),
                              !.profile = profile_update(frame.profile, "uint8")]
    /\ pc' = "cls_open_out"
    /\ UNCHANGED <<fs, handles, result, ncalls, hist>>

ClsOpenOut == pc = "cls_open_out" /\ OpenForWrite(frame.args[2], frame.profile, "cls_write")

ClsWrite == pc = "cls_write" /\ WriteBand(frame.args[2], frame.out, "cls_exit_out")

ClsExitOut == pc = "cls_exit_out" /\ ExitWrite(frame.args[2])

----------------------------------------------------------------------------
\* calculate_area(classified_tif_path)

class_labels ==
    [c \in 1..7 |->
        CASE c = 1 -> "Enhanced Regrowth, High"
          [] c = 2 -> "Enhanced Regrowth, Moderate"
          [] c = 3 -> "Unburned"
          [] c = 4 -> "Low-Severity Burn"
          [] c = 5 -> "Moderate-Severity Burn"
          [] c = 6 -> "High-Severity Burn"
          [] c = 7 -> "Extreme-Severity Burn"]

\* reproject(..., resampling=Resampling.nearest): every cell of the
\* destination grid takes the sample of the source cell it falls in
\* (arrays are row-major, shapes are <<rows, columns>>)
reproject(source, shape, dst_shape) ==
    [i \in 1..(dst_shape[1] * dst_shape[2]) |->
        LET r == (i - 1) \div dst_shape[2]
            c == (i - 1) % dst_shape[2]
            sr == (r * shape[1]) \div dst_shape[1]
            sc == (c * shape[2]) \div dst_shape[2]
        IN  source[sr * shape[2] + sc + 1]]

abs(n) == IF n < 0 THEN -n ELSE n

\* pixel_size_x * pixel_size_y with pixel_size_x = transform.a and
\* pixel_size_y = abs(transform.e), of the reprojected grid
pixel_area(transform) == transform.a * abs(transform.e)

\* the key of class_labels a sample is equal to (`value in class_labels`
\* compares by value, so 3 and 3.0 both hit key 3), 0 when it hits none
label_key(value) ==
    CASE value.k = "u8" /\ value.v \in DOMAIN class_labels -> value.v
      [] value.k = "fin" /\ value.v % 1000 = 0
                         /\ (value.v \div 1000) \in DOMAIN class_labels -> value.v \div 1000
      [] OTHER -> 0

\* np.unique(classified_array, return_counts=True)
unique_classes(array) == {array[i] : i \in DOMAIN array}

count_of(array, value) == Cardinality({i \in DOMAIN array : array[i] = value})

\* the value cut to two decimals in place of rounded
round2_truncating(area_m2) == area_m2 \div 100

\* round(area_m2 / 10000, 2), in hundredths of a hectare.  count is a numpy
\* integer, so area_m2 is a numpy float64 and round is numpy's: the double
\* area_m2 / 10000 times 100, rint (a tie going to the even integer), over
\* 100.  For the whole numbers of square metres below 5450 that product is
\* the exact double of area_m2 / 100 whenever this is a tie, so the result
\* is the nearest hundredth with a decimal tie going to the even one; the
\* areas of the model stay below 1000 m2.
round2(area_m2) ==
    LET q == area_m2 \div 100
        r == area_m2 % 100
    IN  IF r < 50 THEN q
        ELSE IF r > 50 THEN q + 1
        ELSE IF q % 2 = 0 THEN q ELSE q + 1

\* the counts taken on the reprojected array
counted_array_reprojected(original, reprojected) == reprojected

\* the array whose values calculate_area counts
counted_array(original, reprojected) == original

\* `if value in class_labels`
in_class_labels(value) == label_key(value) # 0

\* the loop over zip(unique_classes, counts): area_stats and total_area_m2
RECURSIVE area_loop(_, _, _, _, _)
area_loop(todo, array, pixel_area_m2, area_stats, total_area_m2) ==
    IF todo = {} THEN [area_stats |-> area_stats, total_area_m2 |-> total_area_m2]
    ELSE LET value == CHOOSE x \in todo : TRUE
             area_m2 == count_of(array, value) * pixel_area_m2
         IN  IF in_class_labels(value)
             THEN area_loop(todo \ {value}, array, pixel_area_m2,
                            (class_labels[label_key(value)] :>
                                [class_id |-> label_key(value),
                                 area_hectares |-> round2(area_m2)]) @@ area_stats,
                            total_area_m2 + area_m2)
             ELSE area_loop(todo \ {value}, array, pixel_area_m2,
                            area_stats, total_area_m2)

\* the report calculate_area returns
area_report(original, reprojected, pixel_area_m2) ==
    LET array == counted_array(original, reprojected)
        done == area_loop(unique_classes(array), array, pixel_area_m2, NoReport, 0)
    IN  ("Total_Analyzed_Area" :> [area_hectares |-> round2(done.total_area_m2)])
        @@ done.area_stats

\* the raster at "b" is measured: a classified raster once classify_severity
\* has written it, an input raster before
AreaArgs == {<<"b">>}

CallArea == \E args \in AreaArgs : Call("calculate_area", args, "area_open")

AreaOpen == pc = "area_open" /\ OpenForRead(frame.args[1], "area_read")

\* the body of the with block: the band is read, the target grid computed,
\* the raster resampled into it and the pixel area taken from the target
\* transform; any of these may raise
AreaRead ==
    /\ pc = "area_read"
    /\ LET f == fs[frame.args[1]]
           dst_shape == <<f.geo.height, f.geo.width>>
       IN  \/ frame' = [frame EXCEPT !.a1 = f.data, !.shape1 = f.shape,
                                     !.a2 = reproject(f.data, f.shape, dst_shape),
                                     !.shape2 = dst_shape,
                                     !.area = pixel_area(f.geo)]
           \/ frame' = [frame EXCEPT !.err = "IOError"]
    /\ pc' = "area_exit"
    /\ UNCHANGED <<fs, handles, result, ncalls, hist>>

AreaExit == pc = "area_exit" /\ ExitRead(frame.args[1], "area_stats")

AreaStats ==
    /\ pc = "area_stats"
    /\ Finish(Returned("", area_report(frame.a1, frame.a2, frame.area)), fs)
    /\ UNCHANGED <<fs, handles, ncalls>>

----------------------------------------------------------------------------
\* plot_classified_map(classified_tif_path, title)

PlotArgs == {<<"b">>}

CallPlot == \E args \in PlotArgs : Call("plot_classified_map", args, "plot_open")

PlotOpen == pc = "plot_open" /\ OpenForRead(frame.args[1], "plot_read")

\* the body of the with block: the masked read and the drawing, which may raise
PlotRead ==
    /\ pc = "plot_read"
    /\ \/ frame' = [frame EXCEPT !.a1 = fs[frame.args[1]].data]
       \/ frame' = [frame EXCEPT !.err = "IOError"]
    /\ pc' = "plot_exit"
    /\ UNCHANGED <<fs, handles, result, ncalls, hist>>

PlotExit == pc = "plot_exit" /\ ExitRead(frame.args[1], "plot_show")

\* the colour bar, the labels and plt.show(); the function returns None
PlotShow ==
    /\ pc = "plot_show"
    /\ Finish(Returned("", NoReport), fs)
    /\ UNCHANGED <<fs, handles, ncalls>>

----------------------------------------------------------------------------
\* The pipeline: any sequence of calls on three paths, two of which hold
\* input rasters.

\* a numeric nodata value, -9999.0
Sentinel == Fin(-9999000)

\* the reprojected grid of the input rasters: 10 m pixels
PipeGeo == [width |-> 3, height |-> 1, a |-> 10, e |-> -10]

PipeShapes == {<<1, 2>>, <<2, 1>>}

Arrays(shape, vals) == [1..(shape[1] * shape[2]) -> vals]

\* rasters that are 0.5 everywhere
PipeRasters ==
    {Raster(s, "float32", None, PipeGeo, d) : s \in PipeShapes, d \in Arrays(<<1, 2>>, {Fin(500)})}

NoHist == [before |-> [p \in Paths |-> NoFile], wopened |-> FALSE,
           last |-> NoLast, prev |-> NoLast]

Init ==
    /\ fs \in {f \in [Paths -> PipeRasters \cup {NoFile}] :
                  f["a"] # NoFile /\ f["b"] # NoFile}
    /\ handles = {}
    /\ pc = "idle"
    /\ frame = NoFrame
    /\ result = NoResult
    /\ ncalls = 0
    /\ hist = NoHist

DnbrStep ==
    \/ DnbrOpenPre \/ DnbrReadPre \/ DnbrExitPre
    \/ DnbrOpenPost \/ DnbrReadPost \/ DnbrExitPost
    \/ DnbrCompute \/ DnbrOpenOut \/ DnbrWrite \/ DnbrExitOut

ClsStep ==
    \/ ClsOpen \/ ClsRead \/ ClsExit
    \/ ClsCompute \/ ClsOpenOut \/ ClsWrite \/ ClsExitOut

AreaStep == AreaOpen \/ AreaRead \/ AreaExit \/ AreaStats

PlotStep == PlotOpen \/ PlotRead \/ PlotExit \/ PlotShow

Next ==
    \/ CallDnbr \/ DnbrStep
    \/ CallClassify \/ ClsStep
    \/ CallArea \/ AreaStep
    \/ CallPlot \/ PlotStep

Spec == Init /\ [][Next]_vars

----------------------------------------------------------------------------
\* calculate_dnbr alone, on every pair of two-pixel rasters over a set of
\* samples that holds NaN, an infinity, a numeric nodata value and valid data.

Idle(files, made) ==
    /\ fs = files
    /\ handles = {}
    /\ pc = "idle"
    /\ frame = NoFrame
    /\ result = NoResult
    /\ ncalls = made
    /\ hist = NoHist

DnbrVals == {NaN, Inf(1), Inf(-1), Sentinel, Fin(500), Fin(800)}

DnbrRasters ==
    {Raster(s, "float32", nd, PipeGeo, d) :
        s \in PipeShapes, nd \in {None, Sentinel}, d \in Arrays(<<1, 2>>, DnbrVals)}

\* one call is made
InitDnbr ==
    \E pre \in DnbrRasters, post \in DnbrRasters :
        Idle([p \in Paths |-> CASE p = "a" -> pre [] p = "b" -> post [] OTHER -> NoFile],
             MaxCalls - 1)

NextDnbr == CallDnbr \/ DnbrStep

SpecDnbr == InitDnbr /\ [][NextDnbr]_vars

----------------------------------------------------------------------------
\* classify_severity alone, on rasters whose first sample sweeps the range
\* of dNBR values in steps of one thousandth, and NaN and the infinities.

ClsVals == {Fin(v) : v \in (-MaxMilli)..MaxMilli} \cup {NaN, Inf(1), Inf(-1)}

ClsRasters ==
    {Raster(<<1, 2>>, "float32", None, PipeGeo, <<x, y>>) :
        x \in ClsVals, y \in {NaN, Fin(Cut3)}}

InitClassify ==
    \E dnbr \in ClsRasters :
        Idle([p \in Paths |-> IF p = "c" THEN dnbr ELSE NoFile], MaxCalls - 1)

NextClassify == CallClassify \/ ClsStep

SpecClassify == InitClassify /\ [][NextClassify]_vars

----------------------------------------------------------------------------
\* calculate_area alone, on every classified raster of up to MaxPixels
\* pixels with values 0..8, for reprojected pixels of 40, 50, 75 and 100 m2.

AreaGeos ==
    {[width |-> 2, height |-> 1, a |-> 5, e |-> -8],
     [width |-> 2, height |-> 1, a |-> 10, e |-> -5],
     [width |-> 2, height |-> 1, a |-> 15, e |-> -5],
     [width |-> 2, height |-> 1, a |-> 10, e |-> -10]}

AreaArrays == UNION {[1..n -> {U8(c) : c \in 0..8}] : n \in 1..MaxPixels}

AreaRasters ==
    {Raster(<<1, Len(d)>>, "uint8", None, g, d) : g \in AreaGeos, d \in AreaArrays}

InitArea ==
    \E classified \in AreaRasters :
        Idle([p \in Paths |-> IF p = "b" THEN classified ELSE NoFile], MaxCalls - 1)

NextArea == CallArea \/ AreaStep

SpecArea == InitArea /\ [][NextArea]_vars

----------------------------------------------------------------------------
\* The whole pipeline, as the test fixture runs it, on a pre-fire and a
\* post-fire raster that are constant with the same value: each stage is
\* called with the path the stage before it returned.

ConstVals == {Fin(v) : v \in (-MaxMilli)..MaxMilli} \cup {NaN, Inf(1), Inf(-1)}

ConstShapes == {<<1, 1>>, <<1, 2>>, <<2, 2>>}

ConstRaster(s, x) == Raster(s, "float32", None, PipeGeo, [i \in 1..(s[1] * s[2]) |-> x])

InitPipeline ==
    \E s \in ConstShapes, x \in ConstVals :
        Idle([p \in Paths |-> IF p \in {"a", "b"} THEN ConstRaster(s, x) ELSE NoFile], 0)

RunDnbr ==
    /\ ncalls = 0
    /\ Call("calculate_dnbr", <<"a", "b", "c">>, "dnbr_open_pre")

RunClassify ==
    /\ ncalls = 1
    /\ result.status = "ok"
    /\ Call("classify_severity", <<result.path, "b">>, "cls_open")

RunArea ==
    /\ ncalls = 2
    /\ result.status = "ok"
    /\ Call("calculate_area", <<result.path>>, "area_open")

NextPipeline == RunDnbr \/ DnbrStep \/ RunClassify \/ ClsStep \/ RunArea \/ AreaStep

SpecPipeline == InitPipeline /\ [][NextPipeline]_vars

----------------------------------------------------------------------------
\* Properties.

\* the call that has just ended, and whether it returned
LastCall == hist.last.call

Ended(fn) == pc = "idle" /\ LastCall.fn = fn

ReturnedFrom(fn) == Ended(fn) /\ result.status = "ok"

\* the running calculate_dnbr call was given two readable rasters whose
\* width or height differ
MismatchedInputs ==
    /\ frame.fn = "calculate_dnbr"
    /\ hist.before[frame.args[1]].state = "complete"
    /\ hist.before[frame.args[2]].state = "complete"
    /\ hist.before[frame.args[1]].shape # hist.before[frame.args[2]].shape

\* C1: on input rasters whose width or height differ, calculate_dnbr never
\* returns; once both bands are read it ends in ValueError, which is not the
\* I/O error; and no step of the call opens the output for writing or
\* changes any file, so the output path keeps the content it had (or stays
\* absent).
C1_ShapeMismatchAborts ==
    [][MismatchedInputs =>
          /\ fs' = hist.before
          /\ ~hist'.wopened
          /\ \A h \in handles' : h.mode # "w"
          /\ result'.status # "ok"
          /\ (pc = "dnbr_compute" =>
                 pc' = "idle" /\ result'.status = "ValueError"
                              /\ result'.status # "IOError")]_vars

\* C1 witness: a call on mismatched rasters has ended in ValueError while a
\* file existed at the output path, and that file is as it was.
C1_Witness ==
    /\ Ended("calculate_dnbr")
    /\ result.status = "ValueError"
    /\ hist.before["a"].shape # hist.before["b"].shape
    /\ hist.before[LastCall.args[3]].state = "complete"
    /\ fs[LastCall.args[3]] = hist.before[LastCall.args[3]]

\* the class the table of the specification gives a finite value of v thousandths
TableClass(v) ==
    CASE v <= -251 -> 1
      [] -251 < v /\ v <= -101 -> 2
      [] -101 < v /\ v <= 100 -> 3
      [] 100 < v /\ v <= 270 -> 4
      [] 270 < v /\ v <= 440 -> 5
      [] 440 < v /\ v <= 660 -> 6
      [] v > 660 -> 7

\* the dNBR raster a classify_severity call read, and the raster it wrote
ClsSource == hist.before[LastCall.args[1]]

ClsOutput == fs[LastCall.args[2]]

\* C2: when classify_severity has returned, every finite sample of its input
\* satisfies exactly one of the seven conditions, and the written class is
\* the one the left-open/right-closed table gives it; a cut point itself
\* gets the lower class.
C2_ClassTable ==
    ReturnedFrom("classify_severity") =>
        \A i \in 1..Len(ClsSource.data) :
            LET x == ClsSource.data[i] IN
            x.k = "fin" =>
                /\ Cardinality({j \in 1..7 : conditions(x)[j]}) = 1
                /\ ClsOutput.data[i] = U8(TableClass(x.v))
                /\ (x.v = -251 => ClsOutput.data[i] = U8(1))
                /\ (x.v = 100 => ClsOutput.data[i] = U8(3))
                /\ (x.v = 660 => ClsOutput.data[i] = U8(6))

\* C2 witness: a sample on the cut point 0.100 has been classified as 3.
C2_Witness ==
    /\ ReturnedFrom("classify_severity")
    /\ ClsSource.data[1] = Fin(100)
    /\ ClsOutput.data[1] = U8(3)

\* C3: every raster classify_severity has written has the shape of its
\* input, 8-bit samples in 0..7, and a 0 exactly where the input is NaN.
C3_ClassRange ==
    ReturnedFrom("classify_severity") =>
        /\ ClsOutput.shape = ClsSource.shape
        /\ Len(ClsOutput.data) = Len(ClsSource.data)
        /\ \A i \in 1..Len(ClsOutput.data) :
              /\ ClsOutput.data[i].k = "u8"
              /\ ClsOutput.data[i].v \in 0..7
              /\ (ClsOutput.data[i].v = 0 <=> ClsSource.data[i].k = "nan")

\* C3 witness: a raster with a NaN sample and a finite one has been
\* classified, the NaN as 0 and the other as a class of 1..7.
C3_Witness ==
    /\ ReturnedFrom("classify_severity")
    /\ ClsSource.data[1].k = "fin"
    /\ ClsSource.data[2].k = "nan"
    /\ ClsOutput.data[1].v \in 1..7
    /\ ClsOutput.data[2] = U8(0)

\* the rasters a calculate_dnbr call read, and the raster it wrote
DnbrPre == hist.before[LastCall.args[1]]

DnbrPost == hist.before[LastCall.args[2]]

DnbrOutput == fs[LastCall.args[3]]

\* a sample that is NaN, or equal to the nodata value of its file
IsNoData(f, x) == x.k = "nan" \/ (f.nodata # None /\ x = f.nodata)

\* a sample with no-data replaced by 0.0
NoDataAsZero(f, x) == IF IsNoData(f, x) THEN Fin(0) ELSE x

\* C4 as stated: every written sample is pre' - post', where a no-data or
\* NaN sample counts as 0.0 and every other sample as itself.
C4_NoDataAsZero ==
    ReturnedFrom("calculate_dnbr") =>
        \A i \in 1..Len(DnbrOutput.data) :
            DnbrOutput.data[i] =
                FSub(NoDataAsZero(DnbrPre, DnbrPre.data[i]),
                     NoDataAsZero(DnbrPost, DnbrPost.data[i]))

\* a sample with NaN replaced by 0.0 and an infinity by the largest finite
\* float of its sign
NaNAsZero(x) ==
    IF x.k = "nan" THEN Fin(0) ELSE IF x.k = "inf" THEN FMax(x.v) ELSE x

\* C4 amended: every written sample is pre' - post', where a NaN sample
\* counts as 0.0, an infinite one as the largest finite float of its sign,
\* and every other sample as itself, a sample equal to the file's numeric
\* nodata value included; each input is substituted on its own, before the
\* subtraction.  So a NaN paired with a finite value gives that value or
\* its negation, and two NaN give 0.0.
C4_NaNAsZero ==
    ReturnedFrom("calculate_dnbr") =>
        \A i \in 1..Len(DnbrOutput.data) :
            LET pre == DnbrPre.data[i]
                post == DnbrPost.data[i]
                out == DnbrOutput.data[i]
            IN  /\ out = FSub(NaNAsZero(pre), NaNAsZero(post))
                /\ out.k # "nan"
                /\ (pre.k = "nan" /\ post.k = "fin" => out = Fin(-post.v))
                /\ (pre.k = "fin" /\ post.k = "nan" => out = pre)
                /\ (pre.k = "nan" /\ post.k = "nan" => out = Fin(0))

\* C4 witness: a NaN paired with 0.5 gave -0.5, and a sample equal to the
\* nodata value of its file was subtracted as the number it is.
C4_Witness ==
    /\ ReturnedFrom("calculate_dnbr")
    /\ DnbrPre.nodata = Sentinel
    /\ DnbrPre.data = <<NaN, Sentinel>>
    /\ DnbrPost.data = <<Fin(500), Fin(500)>>
    /\ DnbrOutput.data = <<Fin(-500), Fin(-9999500)>>

\* the report a calculate_area call returned, and the raster it read
Report == result.report

AreaSource == hist.before[LastCall.args[1]]

ClassEntries(report) == DOMAIN report \ {"Total_Analyzed_Area"}

RECURSIVE SumOfEntries(_, _)
SumOfEntries(report, labels) ==
    IF labels = {} THEN 0
    ELSE LET l == CHOOSE x \in labels : TRUE
         IN  report[l].area_hectares + SumOfEntries(report, labels \ {l})

\* the sum of the per-class area_hectares minus the total, in hundredths
AreaGap(report) ==
    abs(SumOfEntries(report, ClassEntries(report))
        - report["Total_Analyzed_Area"].area_hectares)

\* C5 as stated: the per-class areas add up to the total within 0.01 ha.
C5_SumWithinOneHundredth ==
    ReturnedFrom("calculate_area") => AreaGap(Report) <= 1

\* C5 amended: the per-class areas add up to the total within 0.005 ha for
\* each class entry of the report plus 0.005 ha for the total (every one of
\* them is rounded on its own), that is within 0.04 ha for seven classes.
C5_SumWithinRoundings ==
    ReturnedFrom("calculate_area") =>
        /\ 2 * AreaGap(Report) <= Cardinality(ClassEntries(Report)) + 1
        /\ AreaGap(Report) <= 4

\* C5 witness: four classes of 40 m2 each are reported as 0.00 ha each and
\* the total as 0.02 ha.
C5_Witness ==
    /\ ReturnedFrom("calculate_area")
    /\ Cardinality(ClassEntries(Report)) = 4
    /\ AreaGap(Report) = 2

\* C6: when calculate_dnbr or classify_severity has ended, however it
\* ended, no path holds a file that was created and not completed.
C6_NoPartialOutput ==
    (Ended("calculate_dnbr") \/ Ended("classify_severity")) =>
        \A p \in Paths : fs[p].state # "partial"

\* C7: no dataset is open when a stage has ended, by return or by error,
\* nor when a stage opens a file; and the path a stage returns holds a
\* file that is complete and closed.
C7_ScopedFiles ==
    /\ pc = "idle" => handles = {}
    /\ pc \in {"dnbr_open_pre", "dnbr_open_post", "dnbr_open_out", "cls_open",
               "cls_open_out", "area_open", "plot_open"} => handles = {}
    /\ Cardinality(handles) <= 1
    /\ (pc = "idle" /\ result.status = "ok" /\ result.path # "") =>
           /\ fs[result.path].state = "complete"
           /\ \A h \in handles : h.path # result.path

\* C7 witness: a stage has ended in an error raised inside a with block,
\* after another stage returned its output, and nothing is open.
C7_Witness ==
    /\ pc = "idle"
    /\ ncalls = 2
    /\ LastCall.fn = "classify_severity"
    /\ result.status = "IOError"
    /\ fs[LastCall.args[2]].state = "partial"
    /\ handles = {}

\* the pipeline has run to its end on the two constant rasters: the dNBR
\* raster is 0 everywhere, the classified raster is 3 everywhere, and
\* 'Unburned' carries the whole of a total that is not zero
PipelineUnburned ==
    /\ \A i \in 1..Len(fs["c"].data) : fs["c"].data[i] = Fin(0)
    /\ Len(fs["b"].data) = Len(fs["c"].data)
    /\ \A i \in 1..Len(fs["b"].data) : fs["b"].data[i] = U8(3)
    /\ "Unburned" \in DOMAIN Report
    /\ Report["Unburned"].class_id = 3
    /\ Report["Unburned"].area_hectares = Report["Total_Analyzed_Area"].area_hectares
    /\ Report["Total_Analyzed_Area"].area_hectares > 0

OtherLabels == {class_labels[c] : c \in (1..7) \ {3}}

\* C8 as stated: on equal constant rasters the pipeline gives dNBR 0 and
\* class 3 everywhere, 'Unburned' carries the whole area, and each of the
\* other six labels is in the report with area 0.
C8_OthersReportedZero ==
    ReturnedFrom("calculate_area") =>
        /\ PipelineUnburned
        /\ \A l \in OtherLabels : l \in DOMAIN Report /\ Report[l].area_hectares = 0

\* C8 amended: on equal constant rasters the pipeline gives dNBR 0 and
\* class 3 everywhere, 'Unburned' carries the whole area, and the report
\* holds no entry for any of the other six labels: it has the two keys
\* 'Unburned' and 'Total_Analyzed_Area' only.
C8_OthersAbsent ==
    ReturnedFrom("calculate_area") =>
        /\ PipelineUnburned
        /\ \A l \in OtherLabels : l \notin DOMAIN Report
        /\ DOMAIN Report = {"Unburned", "Total_Analyzed_Area"}

\* C8 witness: the pipeline has run to its end on rasters that are NaN
\* everywhere, and on rasters of four pixels.
C8_Witness ==
    /\ ReturnedFrom("calculate_area")
    /\ ncalls = 3
    /\ fs["a"].data[1].k = "nan"
    /\ Len(fs["c"].data) = 4
    /\ Report["Unburned"].area_hectares = 4

\* the call that has just ended repeats the call before it, and neither of
\* the two met an I/O failure
Repeated ==
    /\ pc = "idle"
    /\ hist.prev.call # NoCall
    /\ hist.prev.call = LastCall
    /\ hist.prev.result.status # "IOError"
    /\ result.status # "IOError"

\* the output path of a call is none of its input paths
OutputApart(call) ==
    CASE call.fn = "calculate_dnbr" -> call.args[3] \notin {call.args[1], call.args[2]}
      [] call.fn = "classify_severity" -> call.args[2] # call.args[1]
      [] OTHER -> TRUE

PixelsOf(raster, c) == Cardinality({i \in 1..Len(raster.data) : raster.data[i] = U8(c)})

\* square metres as hundredths of a hectare, to the nearest, a tie to the even
Hundredths(m2) ==
    CHOOSE q \in 0..(m2 \div 100 + 1) :
        \/ abs(100 * q - m2) < 50
        \/ abs(100 * q - m2) = 50 /\ q % 2 = 0

\* C10: the report holds one entry for each class of 1..7 that occurs in
\* the raster as read, with class_id the class and area_hectares the
\* rounded product of its pixel count in that raster and the pixel area of
\* the reprojected grid; the total is the rounded area of the pixels of
\* classes 1..7, so class 0 and values above 7 add nothing to any entry.
C10_AreaReport ==
    ReturnedFrom("calculate_area") =>
        LET pa == AreaSource.geo.a * abs(AreaSource.geo.e)
            present == {c \in 1..7 : PixelsOf(AreaSource, c) > 0}
            counted == Cardinality({i \in 1..Len(AreaSource.data) :
                                       AreaSource.data[i].v \in 1..7})
        IN  /\ ClassEntries(Report) = {class_labels[c] : c \in present}
            /\ \A c \in present :
                  Report[class_labels[c]] =
                      [class_id |-> c,
                       area_hectares |-> Hundredths(PixelsOf(AreaSource, c) * pa)]
            /\ Report["Total_Analyzed_Area"] = [area_hectares |-> Hundredths(counted * pa)]

\* C10 witness: a raster with a pixel of class 0, a pixel of value 8 and
\* pixels of two classes has been measured.
C10_Witness ==
    /\ ReturnedFrom("calculate_area")
    /\ PixelsOf(AreaSource, 0) = 1
    /\ PixelsOf(AreaSource, 8) = 1
    /\ Cardinality(ClassEntries(Report)) = 2
    /\ Report["Total_Analyzed_Area"].area_hectares > 0

====
